---- MODULE Spec2Model ----
(***************************************************************************)
(* A model of pomotodo-rs: the Session (src/src/session.rs) and the Todo   *)
(* data model (src/src/todo.rs).                                           *)
(*                                                                         *)
(* Text (URLs, query strings, hand-formatted bodies) is a sequence of      *)
(* tokens; every token that the code handles character by character (the   *)
(* leading '&' of the query, the characters of a description) is a token   *)
(* of its own.  An Option<T> is a sequence of length 0 (None) or 1 (Some). *)
(***************************************************************************)
EXTENDS Integers, Sequences, FiniteSets, TLC

VARIABLES session, ctor, lock, wire, pc, call, last, fcall

vars == <<session, ctor, lock, wire, pc, call, last, fcall>>

(***************************************************************************)
(* Bounds of the model.                                                    *)
(***************************************************************************)
NumThreads == 2
MaxDescLen == 2
NumUuids == 2
NumDates == 1

(***************************************************************************)
(* Option<T>                                                               *)
(***************************************************************************)
None == <<>>
Some(x) == <<x>>
IsNone(o) == Len(o) = 0
IsSome(o) == Len(o) = 1
Unwrap(o) == o[1]
Option(S) == {None} \cup {Some(x) : x \in S}

(***************************************************************************)
(* Values and their formatting (format!("{}")/("{:?}") of the code).       *)
(***************************************************************************)
Uuids == 1..NumUuids
Dates == 1..NumDates

\* Display of a Uuid: the hyphenated form.
UuidFmt(u) == "00000000-0000-0000-0000-00000000000" \o ToString(u)

\* Debug of a DateTime<UTC> ({:?}) and Display of a DateTime<Utc> ({}).
DateDebug(d) == "1970-01-01T00:00:0" \o ToString(d) \o "Z"
DateDisplay(d) == "1970-01-01 00:00:0" \o ToString(d) \o " UTC"

BoolFmt(b) == IF b THEN "true" ELSE "false"

TODO_URL == "https://api.pomotodo.com/1/todos"
POMO_URL == "https://api.pomotodo.com/1/pomos"

(***************************************************************************)
(* RepeatType: FromStr and Display (todo.rs).                              *)
(***************************************************************************)
RepeatType == {"None", "EachDay", "EachWeek", "EachTwoWeek", "EachMonth", "EachYear"}

RepeatTypeDisplayMutant(v) ==
    CASE v = "None"        -> "none"
      [] v = "EachDay"     -> "each_day"
      [] v = "EachWeek"    -> "each_week"
      [] v = "EachTwoWeek" -> "each_two_weeks"
      [] v = "EachMonth"   -> "each_month"
      [] v = "EachYear"    -> "each_year"

RepeatTypeDisplay(v) ==
    CASE v = "None"        -> "none"
      [] v = "EachDay"     -> "each_day"
      [] v = "EachWeek"    -> "each_week"
      [] v = "EachTwoWeek" -> "each_two_week"
      [] v = "EachMonth"   -> "each_month"
      [] v = "EachYear"    -> "each_year"

\* Result<RepeatType, io::Error>
RepeatTypeFromStr(s) ==
    CASE s = "none"          -> [ok |-> TRUE, val |-> "None"]
      [] s = "each_day"      -> [ok |-> TRUE, val |-> "EachDay"]
      [] s = "each_week"     -> [ok |-> TRUE, val |-> "EachWeek"]
      [] s = "each_two_week" -> [ok |-> TRUE, val |-> "EachTwoWeek"]
      [] s = "each_month"    -> [ok |-> TRUE, val |-> "EachMonth"]
      [] s = "each_year"     -> [ok |-> TRUE, val |-> "EachYear"]
      [] OTHER               -> [ok |-> FALSE, val |-> "InvalidData: invalid repeat type"]

(***************************************************************************)
(* Todo and SubTodo records and their serde serialization (todo.rs).       *)
(* A serialized object is the sequence of its <<key, value>> members.      *)
(***************************************************************************)
TodoFields == <<"uuid", "created_at", "updated_at", "description", "notice", "pin",
                "completed", "completed_at", "repeat_type", "remind_time",
                "estimated_pomo_count", "costed_pomo_count", "sub_todos">>

SubTodoFields == <<"uuid", "parent_uuid", "created_at", "updated_at", "description",
                   "completed", "completed_at">>

\* #[serde(skip_serializing)] on sub_todos; required (non-Option) description.
SkipAlways == {"sub_todos"}
Required == {"description"}

RECURSIVE Members(_, _, _)
Members(rec, fields, i) ==
    IF i > Len(fields) THEN <<>>
    ELSE LET f == fields[i]
         IN  IF f \in SkipAlways THEN Members(rec, fields, i + 1)
             ELSE IF f \in Required THEN <<<<f, rec[f]>>>> \o Members(rec, fields, i + 1)
             ELSE IF IsNone(rec[f]) THEN Members(rec, fields, i + 1)
             ELSE <<<<f, Unwrap(rec[f])>>>> \o Members(rec, fields, i + 1)

SerializeTodo(todo) == Members(todo, TodoFields, 1)
SerializeSubTodo(sub) == Members(sub, SubTodoFields, 1)

Keys(obj) == {obj[i][1] : i \in 1..Len(obj)}

DefaultTodo ==
    [uuid |-> None, created_at |-> None, updated_at |-> None,
     description |-> "New Todo Item via Rust client", notice |-> None, pin |-> None,
     completed |-> None, completed_at |-> None, repeat_type |-> None,
     remind_time |-> None, estimated_pomo_count |-> None, costed_pomo_count |-> None,
     sub_todos |-> None]

DefaultSubTodo ==
    [uuid |-> None, parent_uuid |-> None, created_at |-> None, updated_at |-> None,
     description |-> "New SubTodo Item via Rust client", completed |-> None,
     completed_at |-> None]

(***************************************************************************)
(* TodoParameter::to_query (todo.rs): the supplied filters joined by '&'.  *)
(***************************************************************************)
RECURSIVE Join(_, _)
Join(parts, sep) ==
    IF Len(parts) = 0 THEN <<>>
    ELSE IF Len(parts) = 1 THEN parts[1]
    ELSE parts[1] \o <<sep>> \o Join(Tail(parts), sep)

to_query(self) ==
    LET p1 == IF IsSome(self.completed)
              THEN <<<<"completed", "=", BoolFmt(Unwrap(self.completed))>>>>
              ELSE <<>>
        p2 == IF IsSome(self.completed_later_than)
              THEN Append(p1, <<"completed_later_than", "=",
                                DateDisplay(Unwrap(self.completed_later_than))>>)
              ELSE p1
        p3 == IF IsSome(self.completed_earlier_than)
              THEN Append(p2, <<"completed_earlier_than", "=",
                                DateDisplay(Unwrap(self.completed_earlier_than))>>)
              ELSE p2
    IN  Join(p3, "&")

(***************************************************************************)
(* Requests built by the Session operations (session.rs).  A built call is *)
(* either an early error return or the arguments of get_response, with the *)
(* status code the operation expects and the shape it decodes.             *)
(***************************************************************************)
Statuses == {200, 201, 204, 404}

Ok(v) == [kind |-> "Ok", err |-> "", val |-> v]
\* hyper::Error::Status: a unit variant.
StatusError == [kind |-> "Err", err |-> "Status", val |-> ""]
\* hyper::Error::Io(e)
IoError(e) == [kind |-> "Err", err |-> "Io", val |-> e]
\* Result::unwrap on an Err: the calling thread panics.
Panic == [kind |-> "Panic", err |-> "", val |-> ""]

UuidIsNull == IoError("InvalidData: Uuid is null.")

Early(e) == [early |-> Some(e), method |-> "", url |-> <<>>, body |-> None,
             expect |-> 0, shape |-> ""]
Request(m, u, b, code, sh) ==
    [early |-> None, method |-> m, url |-> u, body |-> b, expect |-> code, shape |-> sh]

JsonBody(obj) == [kind |-> "json", obj |-> obj, text |-> <<>>]
TextBody(text) == [kind |-> "text", obj |-> <<>>, text |-> text]

get_pomo(uuid, manual, abandoned) ==
    LET params == <<"manual", "=", BoolFmt(manual), "&", "abandoned", "=", BoolFmt(abandoned)>>
        url == IF IsSome(uuid)
               THEN <<POMO_URL, "/", UuidFmt(Unwrap(uuid)), "?">> \o params
               ELSE <<POMO_URL, "?">> \o params
    IN  Request("Get", url, None, 200, "Vec<Pomo>")

\* The body is the Display form of the Pomo (pomo.rs), kept as one token.
create_pomo(pomo) ==
    Request("Post", <<POMO_URL>>, Some(TextBody(<<pomo>>)), 201, "Pomo")

update_pomo(uuid, description) ==
    LET url == <<POMO_URL, "/", UuidFmt(uuid)>>
        body == <<"{", " ", "\"", "description", "\"", ":", " ", "\"">>
                \o description \o <<"\"", "}">>
    IN  Request("Patch", url, Some(TextBody(body)), 200, "Pomo")

delete_pomo(uuid) ==
    Request("Delete", <<POMO_URL, "/", UuidFmt(uuid)>>, None, 204, "()")

get_todoMutant(uuid, completed, completed_later_than, completed_earlier_than) ==
    LET p1 == <<"&", "completed", "=",
                IF IsSome(completed) THEN BoolFmt(Unwrap(completed)) ELSE "null">>
        p2 == IF IsSome(completed_later_than)
              THEN p1 \o <<"&", "completed_later_than", "=",
                           DateDebug(Unwrap(completed_later_than))>>
              ELSE p1
        p3 == IF IsSome(completed_earlier_than)
              THEN p2 \o <<"&", "completed_earlier_than", "=",
                           DateDebug(Unwrap(completed_earlier_than))>>
              ELSE p2
        base == IF IsSome(uuid) THEN <<TODO_URL, "/", UuidFmt(Unwrap(uuid))>>
                ELSE <<TODO_URL>>
        url == IF Len(p3) # 0 THEN base \o (<<"?">> \o Tail(p3)) ELSE base
    IN  Request("Get", url, None, 200, "Vec<Todo>")

get_todo(uuid, completed, completed_later_than, completed_earlier_than) ==
    LET p1 == IF IsSome(completed)
              THEN <<"&", "completed", "=", BoolFmt(Unwrap(completed))>>
              ELSE <<>>
        p2 == IF IsSome(completed_later_than)
              THEN p1 \o <<"&", "completed_later_than", "=",
                           DateDebug(Unwrap(completed_later_than))>>
              ELSE p1
        p3 == IF IsSome(completed_earlier_than)
              THEN p2 \o <<"&", "completed_earlier_than", "=",
                           DateDebug(Unwrap(completed_earlier_than))>>
              ELSE p2
        base == IF IsSome(uuid) THEN <<TODO_URL, "/", UuidFmt(Unwrap(uuid))>>
                ELSE <<TODO_URL>>
        \* params.remove(0); params.insert(0, '?'); url.push_str(params)
        url == IF Len(p3) # 0 THEN base \o (<<"?">> \o Tail(p3)) ELSE base
    IN  Request("Get", url, None, 200, "Vec<Todo>")

create_todo(todo) ==
    Request("Post", <<TODO_URL>>, Some(JsonBody(SerializeTodo(todo))), 201, "Todo")

\* "Set not allowed fields to `None`" on a clone of the record.
StripMutant(rec) == [rec EXCEPT !.uuid = None, !.created_at = None]

Strip(rec) == [rec EXCEPT !.uuid = None, !.created_at = None, !.updated_at = None]

update_todoMutant(todo) ==
    LET url == <<TODO_URL, "/", IF IsSome(todo.uuid) THEN UuidFmt(Unwrap(todo.uuid)) ELSE "">>
    IN  Request("Patch", url, Some(JsonBody(SerializeTodo(Strip(todo)))), 200, "Todo")

update_todo(todo) ==
    IF IsNone(todo.uuid) THEN Early(UuidIsNull)
    ELSE LET url == <<TODO_URL, "/", UuidFmt(Unwrap(todo.uuid))>>
         IN  Request("Patch", url, Some(JsonBody(SerializeTodo(Strip(todo)))), 200, "Todo")

delete_todo(uuid) ==
    Request("Delete", <<TODO_URL, "/", UuidFmt(uuid)>>, None, 204, "()")

get_subtodo(parent_id) ==
    Request("Get", <<TODO_URL, "/", UuidFmt(parent_id), "/sub_todos">>, None, 200,
            "Vec<SubTodo>")

create_subtodo(parent_id, sub_todo) ==
    Request("Post", <<TODO_URL, "/", UuidFmt(parent_id), "/sub_todos">>,
            Some(JsonBody(SerializeSubTodo(sub_todo))), 201, "SubTodo")

update_subtodo(parent_id, sub_todo) ==
    IF IsNone(sub_todo.uuid) THEN Early(UuidIsNull)
    ELSE LET url == <<TODO_URL, "/", UuidFmt(parent_id), "/sub_todos", "/",
                      UuidFmt(Unwrap(sub_todo.uuid))>>
         IN  Request("Patch", url, Some(JsonBody(SerializeSubTodo(Strip(sub_todo)))), 200,
                     "SubTodo")

delete_subtodo(parent_id, uuid) ==
    Request("Delete", <<TODO_URL, "/", UuidFmt(parent_id), "/sub_todos", "/", UuidFmt(uuid)>>,
            None, 204, "()")

(***************************************************************************)
(* The threads that share one Session, and the initial (unconstructed)     *)
(* state of the Session variables.                                         *)
(***************************************************************************)
Threads == 1..NumThreads

NoCall == [fn |-> "none", arg |-> <<>>, out |-> None]
NoBuilt == Request("", <<>>, None, 0, "")
Idle == [op |-> "none", arg |-> <<>>, built |-> NoBuilt, status |-> None]
\* The most recent return of a Session operation: what the server answered
\* (status, whether the body was read, the body) and what the caller got.
NoLast == [op |-> "none", arg |-> <<>>, status |-> None, read |-> "skipped",
           body |-> None, decoded |-> FALSE, res |-> Ok("")]

SessionInit ==
    /\ session = None
    /\ ctor = None
    /\ lock = None
    /\ wire = {}
    /\ pc = [t \in Threads |-> "idle"]
    /\ call = [t \in Threads |-> Idle]
    /\ last = NoLast

sessionVars == <<session, ctor, lock, wire, pc, call, last>>

(***************************************************************************)
(* The request-building functions applied to inputs drawn from bounded     *)
(* sets: the input is chosen initially, one action applies the function.   *)
(***************************************************************************)
Descriptions == {"Buy milk"}

Todos ==
    [uuid : Option(Uuids), created_at : Option(Dates), updated_at : Option(Dates),
     description : Descriptions, notice : Option({"note"}), pin : Option({TRUE}),
     completed : Option({TRUE}), completed_at : Option(Dates),
     repeat_type : Option({"EachDay"}), remind_time : Option(Dates),
     estimated_pomo_count : Option({3}), costed_pomo_count : Option({1}),
     sub_todos : Option({<<1>>})]

SubTodos ==
    [uuid : Option(Uuids), parent_uuid : Option(Uuids), created_at : Option(Dates),
     updated_at : Option(Dates), description : Descriptions,
     completed : Option(BOOLEAN), completed_at : Option(Dates)]

TodoFilters ==
    [uuid : Option(Uuids), completed : Option(BOOLEAN),
     completed_later_than : Option(Dates), completed_earlier_than : Option(Dates)]

TodoParameters ==
    [completed : Option(BOOLEAN), completed_later_than : Option(Dates),
     completed_earlier_than : Option(Dates)]

\* The characters a description is made of: a letter, a double quote, a backslash.
DescChars == {"a", "\"", "\\"}

RECURSIVE SeqsUpTo(_, _)
SeqsUpTo(S, n) ==
    IF n = 0 THEN {<<>>}
    ELSE SeqsUpTo(S, n - 1) \cup {Append(q, c) : q \in {x \in SeqsUpTo(S, n - 1) : Len(x) = n - 1}, c \in S}

DescTexts == SeqsUpTo(DescChars, MaxDescLen)

CanonicalRepeat == {"none", "each_day", "each_week", "each_two_week", "each_month", "each_year"}
RepeatStrings == CanonicalRepeat \cup {"", "None", "EachDay", "each_hour", "each_two_weeks",
                                       "EACH_DAY", "each day", "none "}

FnInputs ==
    [fn : {"get_todo"}, arg : TodoFilters, out : {None}]
    \cup [fn : {"to_query"}, arg : TodoParameters, out : {None}]
    \cup [fn : {"update_todo"}, arg : Todos, out : {None}]
    \cup [fn : {"update_subtodo"}, arg : Uuids \X SubTodos, out : {None}]
    \cup [fn : {"update_pomo"}, arg : Uuids \X DescTexts, out : {None}]
    \cup [fn : {"from_str"}, arg : RepeatStrings, out : {None}]
    \cup [fn : {"to_string"}, arg : RepeatType, out : {None}]

InitFn ==
    /\ SessionInit
    /\ fcall \in FnInputs

Pending(f) == fcall.fn = f /\ IsNone(fcall.out)
FnReturn(v) == fcall' = [fcall EXCEPT !.out = Some(v)] /\ UNCHANGED sessionVars

FnGetTodo ==
    /\ Pending("get_todo")
    /\ FnReturn(get_todo(fcall.arg.uuid, fcall.arg.completed, fcall.arg.completed_later_than,
                       fcall.arg.completed_earlier_than))

FnToQuery == Pending("to_query") /\ FnReturn(to_query(fcall.arg))

FnUpdateTodo == Pending("update_todo") /\ FnReturn(update_todo(fcall.arg))

FnUpdateSubtodo ==
    Pending("update_subtodo") /\ FnReturn(update_subtodo(fcall.arg[1], fcall.arg[2]))

FnUpdatePomo == Pending("update_pomo") /\ FnReturn(update_pomo(fcall.arg[1], fcall.arg[2]))

FnFromStr == Pending("from_str") /\ FnReturn(RepeatTypeFromStr(fcall.arg))

\* v.to_string() and the parse of the string it yields.
FnToString ==
    /\ Pending("to_string")
    /\ FnReturn([str |-> RepeatTypeDisplay(fcall.arg),
               parsed |-> RepeatTypeFromStr(RepeatTypeDisplay(fcall.arg))])

NextFn ==
    \/ FnGetTodo
    \/ FnToQuery
    \/ FnUpdateTodo
    \/ FnUpdateSubtodo
    \/ FnUpdatePomo
    \/ FnFromStr
    \/ FnToString

SpecFn == InitFn /\ [][NextFn]_vars

Returned(f) == fcall.fn = f /\ IsSome(fcall.out)
Out == Unwrap(fcall.out)

(***************************************************************************)
(* Reading a query string and a JSON object back from their text.          *)
(***************************************************************************)
Range(q) == {q[i] : i \in 1..Len(q)}
Count(q, x) == Cardinality({i \in 1..Len(q) : q[i] = x})

\* The tokens before the first sep, and those after it.
RECURSIVE Before(_, _)
Before(q, sep) ==
    IF Len(q) = 0 \/ q[1] = sep THEN <<>> ELSE <<q[1]>> \o Before(Tail(q), sep)
After(q, sep) == SubSeq(q, Len(Before(q, sep)) + 2, Len(q))

RECURSIVE Split(_, _)
Split(q, sep) ==
    IF sep \notin Range(q) THEN <<q>>
    ELSE <<Before(q, sep)>> \o Split(After(q, sep), sep)

\* The key=value pairs of a query string; the empty string has none.
Pairs(q) == IF Len(q) = 0 THEN <<>> ELSE Split(q, "&")

\* JSON text (RFC 8259), restricted to objects whose values are strings.
JsonFail == [ok |-> FALSE, val |-> <<>>, next |-> 0]

RECURSIVE SkipWs(_, _)
SkipWs(q, i) == IF i <= Len(q) /\ q[i] = " " THEN SkipWs(q, i + 1) ELSE i

RECURSIVE ScanString(_, _, _)
ScanString(q, j, acc) ==
    IF j > Len(q) THEN JsonFail
    ELSE IF q[j] = "\"" THEN [ok |-> TRUE, val |-> acc, next |-> j + 1]
    ELSE IF q[j] = "\\"
         THEN IF j + 1 <= Len(q) /\ q[j + 1] \in {"\"", "\\", "/"}
              THEN ScanString(q, j + 2, Append(acc, q[j + 1]))
              ELSE JsonFail
    ELSE ScanString(q, j + 1, Append(acc, q[j]))

ParseString(q, i) ==
    IF i <= Len(q) /\ q[i] = "\"" THEN ScanString(q, i + 1, <<>>) ELSE JsonFail

RECURSIVE ParseMembers(_, _, _)
ParseMembers(q, i, acc) ==
    LET k == ParseString(q, i)
        c == SkipWs(q, k.next)
        v == ParseString(q, SkipWs(q, c + 1))
        e == SkipWs(q, v.next)
    IN  IF ~k.ok THEN JsonFail
        ELSE IF ~(c <= Len(q) /\ q[c] = ":") THEN JsonFail
        ELSE IF ~v.ok THEN JsonFail
        ELSE IF e > Len(q) THEN JsonFail
        ELSE IF q[e] = "}" THEN [ok |-> TRUE, val |-> Append(acc, <<k.val, v.val>>),
                                 next |-> e + 1]
        ELSE IF q[e] = "," THEN ParseMembers(q, SkipWs(q, e + 1),
                                             Append(acc, <<k.val, v.val>>))
        ELSE JsonFail

ParseObject(q) ==
    LET i == SkipWs(q, 1)
        j == SkipWs(q, i + 1)
        r == IF i > Len(q) \/ q[i] # "{" THEN JsonFail
             ELSE IF j <= Len(q) /\ q[j] = "}" THEN [ok |-> TRUE, val |-> <<>>, next |-> j + 1]
             ELSE ParseMembers(q, j, <<>>)
    IN  IF r.ok /\ SkipWs(q, r.next) > Len(q) THEN r ELSE JsonFail

(***************************************************************************)
(* Properties of the request-building functions (checked under SpecFn).    *)
(***************************************************************************)
NotAllowed == {"uuid", "created_at", "updated_at"}

\* C4: the body of an update_todo / update_subtodo PATCH request has none of
\* the keys uuid, created_at, updated_at whatever the input record holds, the
\* input record is left as it was, and the record's uuid ends the request URL.
C4_UpdateBodyOmitsServerFields ==
    /\ [](Returned("update_todo") /\ IsSome(fcall.arg.uuid) =>
            /\ IsNone(Out.early)
            /\ Out.method = "Patch"
            /\ Keys(Unwrap(Out.body).obj) \cap NotAllowed = {}
            /\ Out.url = <<TODO_URL, "/", UuidFmt(Unwrap(fcall.arg.uuid))>>)
    /\ [](Returned("update_subtodo") /\ IsSome(fcall.arg[2].uuid) =>
            /\ IsNone(Out.early)
            /\ Out.method = "Patch"
            /\ Keys(Unwrap(Out.body).obj) \cap NotAllowed = {}
            /\ Out.url[Len(Out.url)] = UuidFmt(Unwrap(fcall.arg[2].uuid)))
    /\ [][fcall'.arg = fcall.arg]_vars

C4_Witness ==
    /\ Returned("update_todo")
    /\ IsSome(fcall.arg.uuid) /\ IsSome(fcall.arg.created_at) /\ IsSome(fcall.arg.updated_at)
    /\ IsSome(fcall.arg.completed)
    /\ {"description", "completed"} \subseteq Keys(Unwrap(Out.body).obj)

FilterKeys(a) ==
    (IF IsSome(a.completed) THEN <<"completed">> ELSE <<>>)
    \o (IF IsSome(a.completed_later_than) THEN <<"completed_later_than">> ELSE <<>>)
    \o (IF IsSome(a.completed_earlier_than) THEN <<"completed_earlier_than">> ELSE <<>>)

\* ps holds exactly one key=value pair for each filter a supplies, in order.
PairsMatch(ps, a) ==
    LET keys == FilterKeys(a)
    IN  /\ Len(ps) = Len(keys)
        /\ \A i \in 1..Len(ps) :
              /\ Len(ps[i]) = 3
              /\ ps[i][1] = keys[i]
              /\ ps[i][2] = "="
              /\ ps[i][3] \notin {"", "null", "None"}
              /\ keys[i] = "completed" => ps[i][3] = BoolFmt(Unwrap(a.completed))

\* C8: the query string of get_todo's URL holds exactly one key=value pair
\* for each supplied filter and nothing for an unset one; without filters the
\* URL has no '?'; with only completed=Some(true) the query is completed=true.
\* TodoParameter::to_query omits unset filters in the same way.
C8_QueryOmitsUnsetFilters ==
    /\ Returned("get_todo") =>
         LET a == fcall.arg
             url == Out.url
         IN  /\ Before(url, "?") = IF IsSome(a.uuid)
                                   THEN <<TODO_URL, "/", UuidFmt(Unwrap(a.uuid))>>
                                   ELSE <<TODO_URL>>
             /\ FilterKeys(a) = <<>> => "?" \notin Range(url)
             /\ FilterKeys(a) # <<>> =>
                  Count(url, "?") = 1 /\ PairsMatch(Pairs(After(url, "?")), a)
             /\ FilterKeys(a) = <<"completed">> /\ Unwrap(a.completed) =>
                  After(url, "?") = <<"completed", "=", "true">>
    /\ Returned("to_query") => PairsMatch(Pairs(Out), fcall.arg)

C8_Witness ==
    /\ Returned("get_todo")
    /\ fcall.arg.completed = Some(TRUE)
    /\ IsNone(fcall.arg.completed_later_than) /\ IsNone(fcall.arg.completed_earlier_than)
    /\ IsNone(fcall.arg.uuid)
    /\ Out.url = <<TODO_URL, "?", "completed", "=", "true">>

\* C9: parsing the Display string of each RepeatType value yields that value,
\* the Display strings are the six canonical ones, and a string outside the
\* six fails to parse.
C9_RepeatTypeRoundTrip ==
    /\ Returned("to_string") =>
         /\ Out.str \in CanonicalRepeat
         /\ Out.parsed.ok /\ Out.parsed.val = fcall.arg
    /\ Returned("from_str") /\ fcall.arg \notin CanonicalRepeat => ~Out.ok

C9_Witness ==
    /\ Returned("to_string")
    /\ fcall.arg = "EachTwoWeek"
    /\ Out.str = "each_two_week"

\* C10: the body of update_pomo's PATCH request is a JSON object with the one
\* key description, whose decoded value is the description given.
C10_BodyIsDescriptionObject ==
    Returned("update_pomo") =>
        LET parsed == ParseObject(Unwrap(Out.body).text)
        IN  /\ parsed.ok
            /\ parsed.val = <<<<<<"description">>, fcall.arg[2]>>>>

\* What does hold: a description without '"' and '\' is sent as that object.
C10_PlainDescription ==
    Returned("update_pomo") /\ Range(fcall.arg[2]) \subseteq {"a"} =>
        ParseObject(Unwrap(Out.body).text).val = <<<<<<"description">>, fcall.arg[2]>>>>

(***************************************************************************)
(* The Session (session.rs): construction, the cached account, and the     *)
(* resource operations called by threads that share one Session.           *)
(***************************************************************************)
Tokens == {"secret"}
Accounts == {"alice", "bob"}

\* A response body: well-formed JSON of some shape, or text that is no JSON.
Garbage == [shape |-> "", val |-> ""]
WellFormed(shape, v) == [shape |-> shape, val |-> v]
Bodies(shape) ==
    IF shape = "Account" THEN {WellFormed(shape, a) : a \in Accounts} \cup {Garbage}
    ELSE IF shape = "()" THEN {WellFormed("", ""), Garbage}
    ELSE {WellFormed(shape, "value"), Garbage}

\* serde_json::from_str::<T>(body): Result<T, serde_json::Error>
Decode(shape, body) ==
    IF body.shape = shape THEN [ok |-> TRUE, val |-> body.val]
    ELSE [ok |-> FALSE, val |-> ""]

\* The closure each operation runs on the (status, body) get_response returns.
CheckMutant(built, status, body) ==
    IF status \in 200..299
    THEN IF built.shape = "()" THEN Ok("()")
         ELSE IF Decode(built.shape, body).ok THEN Ok(Decode(built.shape, body).val)
         ELSE Panic
    ELSE StatusError

Check(built, status, body) ==
    IF status = built.expect
    THEN IF built.shape = "()" THEN Ok("()")
         ELSE IF Decode(built.shape, body).ok THEN Ok(Decode(built.shape, body).val)
         ELSE Panic
    ELSE StatusError

Decodes(built, status) == status = built.expect /\ built.shape # "()"

\* Headers built by with_token and get_response.
Headers(token, body) ==
    [authorization |-> <<"token", " ", token>>,
     content_type |-> IF IsSome(body) THEN Some("application/json") ELSE None]

LockFreeMutant(l) == TRUE

\* Mutex::lock blocks while another thread holds the guard.
LockFree(l) == IsNone(l)

get_accountMutant(self) == None

get_account(self) == self.account

\* Session::with_token: one GET of the account endpoint on a client that no
\* other thread can reach yet.  The caller that panicked constructs no more.
with_token(token) ==
    /\ IsNone(session)
    /\ last.res.kind # "Panic"
    /\ UNCHANGED <<lock, wire, pc, call, fcall>>
    /\ \/ /\ last' = [NoLast EXCEPT !.op = "with_token", !.arg = token,
                                     !.res = IoError("transport")]
          /\ UNCHANGED <<session, ctor>>
       \/ \E status \in Statuses \ {200} :
          /\ last' = [NoLast EXCEPT !.op = "with_token", !.arg = token,
                                     !.status = Some(status), !.res = StatusError]
          /\ UNCHANGED <<session, ctor>>
       \/ /\ last' = [NoLast EXCEPT !.op = "with_token", !.arg = token,
                                     !.status = Some(200), !.read = "failed",
                                     !.res = IoError("read")]
          /\ UNCHANGED <<session, ctor>>
       \/ \E body \in Bodies("Account") :
          LET d == Decode("Account", body)
          IN  /\ last' = [NoLast EXCEPT !.op = "with_token", !.arg = token,
                                         !.status = Some(200), !.read = "ok",
                                         !.body = Some(body), !.decoded = TRUE,
                                         !.res = IF d.ok THEN Ok("Session") ELSE Panic]
              /\ ctor' = Some([token |-> token, body |-> body])
              /\ session' = IF d.ok THEN Some([token |-> token, account |-> Some(d.val)])
                            ELSE None

GetAccount(t) ==
    /\ IsSome(session)
    /\ pc[t] = "idle"
    /\ last' = [NoLast EXCEPT !.op = "get_account", !.res = Ok(get_account(Unwrap(session)))]
    /\ UNCHANGED <<session, ctor, lock, wire, pc, call, fcall>>

\* An operation up to the point where get_response holds the client lock:
\* an early error return, or the request built and `self.client.lock()`
\* taken.  A thread blocked in lock() has changed nothing yet: it takes this
\* step when the lock is free.
Begin(t, op, arg, built) ==
    /\ IsSome(session)
    /\ pc[t] = "idle"
    /\ IF IsSome(built.early)
       THEN /\ last' = [NoLast EXCEPT !.op = op, !.arg = arg, !.res = Unwrap(built.early)]
            /\ UNCHANGED <<pc, call, lock>>
       ELSE /\ LockFree(lock)
            /\ lock' = Some(t)
            /\ pc' = [pc EXCEPT ![t] = "locked"]
            /\ call' = [call EXCEPT ![t] = [op |-> op, arg |-> arg, built |-> built,
                                            status |-> None]]
            /\ UNCHANGED last
    /\ UNCHANGED <<session, ctor, wire, fcall>>

SampleTodos == {[DefaultTodo EXCEPT !.description = "Buy milk"],
                [DefaultTodo EXCEPT !.uuid = Some(1), !.created_at = Some(1),
                                    !.updated_at = Some(1), !.completed = Some(TRUE)]}
SampleSubTodos == {DefaultSubTodo,
                   [DefaultSubTodo EXCEPT !.uuid = Some(1), !.created_at = Some(1),
                                          !.updated_at = Some(1)]}

GetPomo(t) == Begin(t, "get_pomo", <<None, FALSE, TRUE>>, get_pomo(None, FALSE, TRUE))
CreatePomo(t) == Begin(t, "create_pomo", "pomo", create_pomo("pomo"))
UpdatePomo(t) == Begin(t, "update_pomo", <<1, <<"a">>>>, update_pomo(1, <<"a">>))
DeletePomo(t) == Begin(t, "delete_pomo", 1, delete_pomo(1))
GetTodo(t) ==
    Begin(t, "get_todo", <<None, Some(TRUE), None, None>>, get_todo(None, Some(TRUE), None, None))
CreateTodo(t) == Begin(t, "create_todo", DefaultTodo, create_todo(DefaultTodo))
UpdateTodo(t) == \E todo \in SampleTodos : Begin(t, "update_todo", todo, update_todo(todo))
DeleteTodo(t) == Begin(t, "delete_todo", 1, delete_todo(1))
GetSubtodo(t) == Begin(t, "get_subtodo", 1, get_subtodo(1))
CreateSubtodo(t) ==
    Begin(t, "create_subtodo", <<1, DefaultSubTodo>>, create_subtodo(1, DefaultSubTodo))
UpdateSubtodo(t) ==
    \E sub \in SampleSubTodos : Begin(t, "update_subtodo", <<1, sub>>, update_subtodo(1, sub))
DeleteSubtodo(t) == Begin(t, "delete_subtodo", <<1, 1>>, delete_subtodo(1, 1))

\* The rest of get_response, step by step: send the request, get the response
\* head (or a transport error), read the body (or an I/O error).  Returning
\* drops the guard; the operation's closure then runs on (status, body).
Finish(t, status, read, body, res) ==
    /\ lock' = None
    /\ wire' = {r \in wire : r.from # t}
    /\ pc' = [pc EXCEPT ![t] = IF res.kind = "Panic" THEN "panicked" ELSE "idle"]
    /\ call' = [call EXCEPT ![t] = Idle]
    /\ last' = [op |-> call[t].op, arg |-> call[t].arg,
                status |-> status, read |-> read, body |-> body,
                decoded |-> read = "ok" /\ Decodes(call[t].built, Unwrap(status)),
                res |-> res]
    /\ UNCHANGED <<session, ctor, fcall>>

Send(t) ==
    /\ pc[t] = "locked"
    /\ wire' = wire \cup {[from |-> t, method |-> call[t].built.method,
                           url |-> call[t].built.url,
                           headers |-> Headers(Unwrap(session).token, call[t].built.body),
                           body |-> call[t].built.body]}
    /\ pc' = [pc EXCEPT ![t] = "sent"]
    /\ UNCHANGED <<session, ctor, lock, call, last, fcall>>

Recv(t) ==
    /\ pc[t] = "sent"
    /\ \/ Finish(t, None, "skipped", None, IoError("transport"))
       \/ \E status \in Statuses :
          /\ call' = [call EXCEPT ![t].status = Some(status)]
          /\ pc' = [pc EXCEPT ![t] = "reading"]
          /\ UNCHANGED <<session, ctor, lock, wire, last, fcall>>

ReadBody(t) ==
    /\ pc[t] = "reading"
    /\ \/ Finish(t, call[t].status, "failed", None, IoError("read"))
       \/ \E body \in Bodies(call[t].built.shape) :
          Finish(t, call[t].status, "ok", Some(body),
                 Check(call[t].built, Unwrap(call[t].status), body))

Next ==
    \/ \E token \in Tokens : with_token(token)
    \/ \E t \in Threads : GetAccount(t)
    \/ \E t \in Threads : GetPomo(t)
    \/ \E t \in Threads : CreatePomo(t)
    \/ \E t \in Threads : UpdatePomo(t)
    \/ \E t \in Threads : DeletePomo(t)
    \/ \E t \in Threads : GetTodo(t)
    \/ \E t \in Threads : CreateTodo(t)
    \/ \E t \in Threads : UpdateTodo(t)
    \/ \E t \in Threads : DeleteTodo(t)
    \/ \E t \in Threads : GetSubtodo(t)
    \/ \E t \in Threads : CreateSubtodo(t)
    \/ \E t \in Threads : UpdateSubtodo(t)
    \/ \E t \in Threads : DeleteSubtodo(t)
    \/ \E t \in Threads : Send(t)
    \/ \E t \in Threads : Recv(t)
    \/ \E t \in Threads : ReadBody(t)

Init == SessionInit /\ fcall = NoCall

Spec == Init /\ [][Next]_vars

(***************************************************************************)
(* Properties of the Session (checked under Spec).                         *)
(***************************************************************************)
Gets == {"get_pomo", "get_todo", "get_subtodo"}
Creates == {"create_pomo", "create_todo", "create_subtodo"}
Updates == {"update_pomo", "update_todo", "update_subtodo"}
Deletes == {"delete_pomo", "delete_todo", "delete_subtodo"}
Operations == {"with_token"} \cup Gets \cup Creates \cup Updates \cup Deletes

ExpectedCode(op) ==
    IF op \in Creates THEN 201 ELSE IF op \in Deletes THEN 204 ELSE 200

IsStatusError(r) == r.kind = "Err" /\ r.err = "Status"

\* An operation has returned after a response arrived whose read did not fail.
Answered == last.op \in Operations /\ IsSome(last.status) /\ last.read # "failed"

\* C1 as stated: success exactly when the status is the expected one.
C1_SuccessIffExpectedStatus ==
    Answered =>
        /\ last.res.kind = "Ok" <=> Unwrap(last.status) = ExpectedCode(last.op)
        /\ Unwrap(last.status) # ExpectedCode(last.op) =>
              IsStatusError(last.res) /\ ~last.decoded

\* C1 (amended): when a response arrives and its read does not fail, the
\* operation succeeds exactly when the status is the operation's expected code
\* and, unless the operation is a delete, the body parses into the expected
\* shape; on any other status it returns a status error without decoding.
C1_SuccessIffExpectedStatusAndBodyParses ==
    Answered =>
        /\ last.res.kind = "Ok" <=>
              /\ Unwrap(last.status) = ExpectedCode(last.op)
              /\ last.op \in Deletes \/ Unwrap(last.body) # Garbage
        /\ Unwrap(last.status) # ExpectedCode(last.op) =>
              IsStatusError(last.res) /\ ~last.decoded
        /\ last.decoded => Unwrap(last.status) = ExpectedCode(last.op)

C1_Witness ==
    /\ last.op = "create_todo"
    /\ last.status = Some(200)
    /\ last.read = "ok"
    /\ IsStatusError(last.res)

\* C2: two returns of an operation with a status error, on different observed
\* status codes, give the caller different errors (the error carries the code).
C2_StatusErrorCarriesCode ==
    [][IsStatusError(last.res) /\ IsStatusError(last'.res) /\ last'.op = last.op
         /\ last'.status # last.status
       => last'.res # last.res]_vars

UuidOf(op, arg) == IF op = "update_todo" THEN arg.uuid ELSE arg[2].uuid
NeedsUuid == {"update_todo", "update_subtodo"}

\* C3: update_todo / update_subtodo of a record without uuid returns the
\* "Uuid is null" error with no response observed, the step that returns it
\* leaves the client lock and the wire alone, and no thread is ever inside
\* get_response for such a record.
C3_UpdateWithoutUuidIsNotSent ==
    /\ [](/\ \A t \in Threads :
                call[t].op \in NeedsUuid => IsSome(UuidOf(call[t].op, call[t].arg))
          /\ last.op \in NeedsUuid /\ IsNone(UuidOf(last.op, last.arg)) =>
                /\ last.res.kind = "Err" /\ last.res.err = "Io"
                /\ last.res.val = "InvalidData: Uuid is null."
                /\ IsNone(last.status) /\ last.read = "skipped")
    /\ [][/\ last'.op \in NeedsUuid /\ IsNone(UuidOf(last'.op, last'.arg))
          /\ ~(last.op = last'.op /\ IsNone(UuidOf(last.op, last.arg)))
          => UNCHANGED <<lock, wire, pc, call>>]_vars

C3_Witness ==
    /\ last.op = "update_subtodo"
    /\ IsNone(last.arg[2].uuid)
    /\ last.res.kind = "Err"
    /\ lock # None

\* C5: no operation panics: every call ends in an error value or in success.
C5_NoPanic ==
    /\ last.res.kind \in {"Ok", "Err"}
    /\ \A t \in Threads : pc[t] # "panicked"

\* C6: once constructed, the Session keeps the token it was given and the
\* account decoded from the construction-time response, whatever operations
\* run; get_account returns that account and touches neither lock nor wire.
C6_AccountIsTheConstructionSnapshot ==
    /\ [](IsSome(session) =>
            /\ IsSome(ctor)
            /\ Decode("Account", Unwrap(ctor).body).ok
            /\ Unwrap(session).account = Some(Decode("Account", Unwrap(ctor).body).val)
            /\ Unwrap(session).token = Unwrap(ctor).token
            /\ last.op = "get_account" =>
                  /\ last.res.kind = "Ok"
                  /\ last.res.val = Some(Decode("Account", Unwrap(ctor).body).val))
    /\ [][IsSome(session) => session' = session /\ ctor' = ctor]_vars
    /\ [][last'.op = "get_account" /\ last.op # "get_account"
          => UNCHANGED <<lock, wire, pc, call>>]_vars

C6_Witness ==
    /\ last.op = "get_account"
    /\ last.res.val = Some("bob")
    /\ \E t \in Threads : pc[t] = "panicked"
    /\ \E t \in Threads : pc[t] = "reading"

InExchange == {t \in Threads : pc[t] \in {"locked", "sent", "reading"}}

\* C7: at most one request is on the wire and at most one thread is inside
\* get_response; that thread holds the client lock from before its request
\* is sent until its response is read, and meanwhile no other thread can
\* enter get_response.
C7_OneExchangeAtATime ==
    /\ Cardinality(wire) <= 1
    /\ Cardinality(InExchange) <= 1
    /\ \A t \in InExchange : lock = Some(t)
    /\ \A r \in wire : lock = Some(r.from) /\ pc[r.from] \in {"sent", "reading"}
    /\ IsSome(lock) =>
         \A t \in Threads \ {Unwrap(lock)} : ~ENABLED (DeletePomo(t) \/ CreateTodo(t))

C7_Witness ==
    /\ \E t \in Threads : pc[t] = "reading" /\ lock = Some(t) /\ wire # {}
    /\ \E t \in Threads : pc[t] = "idle" /\ ENABLED GetAccount(t)

====
